---- MODULE Spec2Model ----
(***************************************************************************)
(* Model of cprofilev.py: the Stats wrapper around pstats.Stats (sort,     *)
(* show, show_callers, show_callees, read, process_line,                   *)
(* get_updated_href), the CProfileV.route_handler request handler and the  *)
(* script-mode start-up of main().                                         *)
(*                                                                         *)
(* Text is a sequence of atoms.  An atom stands for one character or for   *)
(* one indivisible word ("ncalls", "foo", "mod.py"); the characters that   *)
(* the code treats specially ("(", ")", "&", "=", "?", "<", ">", "\n")     *)
(* are atoms of their own, so that concatenation, slicing, find, replace,  *)
(* HTML escaping and query-string parsing act on them as the code does.    *)
(***************************************************************************)
EXTENDS Integers, Sequences, FiniteSets, TLC

VARIABLES
    \* ---- script mode (main) and the profiled workload --------------------
    mainPc,      \* position of main(): "spawn", "serve", "serving"
    server,      \* the serving path: "down", "serving"
    workload,    \* background thread: "unstarted", "running", "finished", "raised"
    profData,    \* amount of profiling data accumulated in the cProfile.Profile
    \* ---- CProfileV and the Stats sessions --------------------------------
    selfStats,   \* CProfileV.stats: id of the session it refers to, 0 = unset
    sessions,    \* Stats object id -> [made, snap, sortKey, stream]
    \* ---- requests in flight (one route_handler activation each) ----------
    pc,          \* request -> position in route_handler
    reqQuery,    \* request -> bottle.request.query of that request
    cur,         \* request -> the Stats object its current expression holds, 0 = none
    mine,        \* request -> the Stats object it constructed at line 192, 0 = none
    blocks,      \* request -> [callers, callees, stats], the values read so far
    calls,       \* request -> the render calls it has made (op, restrictions)
    afterStop,   \* request -> issued after the workload had stopped
    \* ---- one read() of a printed report (formatter) ----------------------
    fmtPc,       \* "input", "read", "clicked"
    fmtQuery,    \* bottle.request.query while the report is formatted
    fmtRaw,      \* the text in the stream before read()
    fmtOut,      \* the value read() returned
    fmtPrev,     \* the query of the request whose report held the followed link
    fmtClicked,  \* the visible text of the link followed, <<>> = none yet
    fmtClicks    \* number of links followed so far

serverVars == <<mainPc, server, workload, profData, selfStats, sessions,
                pc, reqQuery, cur, mine, blocks, calls, afterStop>>
fmtVars == <<fmtPc, fmtQuery, fmtRaw, fmtOut, fmtPrev, fmtClicked, fmtClicks>>
vars == <<serverVars, fmtVars>>

----------------------------------------------------------------------------
(* Bounds of the model *)

\* number of route_handler activations the transport may run
NReq == 2
\* units of profiling data the workload may accumulate
MaxData == 2
\* links a reader follows from report to report
MaxClicks == 1

----------------------------------------------------------------------------
(* Program constants *)

SORT_KEY == "sort"
FUNC_NAME_KEY == "func_name"
FUNC_LOC_KEY == "func_loc"

\* Stats.IGNORE_FUNC_NAMES = ['function', '']
IGNORE_FUNC_NAMES == { <<"function">>, <<>> }

\* Stats.DEFAULT_SORT_ARG
DEFAULT_SORT_ARG == <<"cumulative">>

\* Stats.SORT_ARGS, in the order of the dict literal
SORT_ARGS == << <<"ncalls", "calls">>, <<"tottime", "time">>,
                <<"cumtime", "cumulative">>, <<"filename", "module">>,
                <<"lineno", "nfl">> >>

\* Stats.HEADER_LINE_REGEX = r'ncalls|tottime|cumtime'
HEADER_LINE_REGEX == {"ncalls", "tottime", "cumtime"}

\* Stats.FUNCTION_SIG_HEADER = 'filename:lineno(function)'
FUNCTION_SIG_HEADER == <<"filename", ":", "lineno", "(", "function", ")">>

\* Python's None as a query value (distinct from the empty string <<>>)
None == <<"<None>">>

----------------------------------------------------------------------------
(* Strings *)

RECURSIVE Concat(_)
\* "".join(parts), joined by halves
Concat(parts) ==
    IF parts = <<>> THEN <<>>
    ELSE IF Len(parts) = 1 THEN parts[1]
    ELSE LET h == Len(parts) \div 2
         IN Concat(SubSeq(parts, 1, h)) \o Concat(SubSeq(parts, h + 1, Len(parts)))

\* s[:n] of Python, n >= 0
Take(s, n) == SubSeq(s, 1, IF n < Len(s) THEN n ELSE Len(s))

\* s[n:] of Python, n >= 0
Drop(s, n) == SubSeq(s, n + 1, Len(s))

\* s.find(sub): 0-based index of the first occurrence, -1 when there is none
Find(s, sub) ==
    LET hits == { i \in 0..(Len(s) - Len(sub)) :
                     SubSeq(s, i + 1, i + Len(sub)) = sub }
    IN IF hits = {} THEN -1 ELSE CHOOSE i \in hits : \A j \in hits : i <= j

\* the elements of s at the indices in keep, in order
AtIndices(s, keep) ==
    [k \in 1..Cardinality(keep) |->
        s[CHOOSE i \in keep : Cardinality({ j \in keep : j <= i }) = k]]

\* s.replace(key, new) for a one-atom key: every occurrence in the ORIGINAL s
Replace(s, key, new) ==
    Concat([i \in 1..Len(s) |-> IF s[i] = key THEN new ELSE <<s[i]>>])

\* the pieces of s between the separators sep; a piece keeps its separator
\* when keepend
Pieces(s, sep, keepend) ==
    LET at == { i \in 1..Len(s) : s[i] = sep }
        ends == at \cup {Len(s) + 1}
        from(e) == IF \E i \in at : i < e
                   THEN 1 + CHOOSE i \in at : i < e /\ \A j \in at : j < e => j <= i
                   ELSE 1
    IN [k \in 1..Cardinality(ends) |->
           LET e == CHOOSE i \in ends : Cardinality({ j \in ends : j <= i }) = k
           IN SubSeq(s, from(e), IF keepend /\ e <= Len(s) THEN e ELSE e - 1)]

\* output.splitlines(True): lines keep their line end, no empty last line
SplitLines(s) ==
    LET p == Pieces(s, "\n", TRUE)
    IN IF p[Len(p)] = <<>> THEN SubSeq(p, 1, Len(p) - 1) ELSE p

\* bottle.html_escape on one atom (the markup atoms "<a href='", "'>", "</a>"
\* stand for their characters)
EscapeAtom(a) ==
    CASE a = "&" -> "&amp;"
      [] a = "<" -> "&lt;"
      [] a = ">" -> "&gt;"
      [] a = "'" -> "&#039;"
      [] a = "<a href='" -> "&lt;a href=&#039;"
      [] a = "'>" -> "&#039;&gt;"
      [] a = "</a>" -> "&lt;/a&gt;"
      [] OTHER -> a

\* bottle's {{ x }} substitution: the value, HTML-escaped
Escape(s) == [i \in 1..Len(s) |-> EscapeAtom(s[i])]

\* bottle.template("<a href='{{ url }}'>{{ text }}</a>", ...)
LinkTemplate(url, text) ==
    <<"<a href='">> \o Escape(url) \o <<"'>">> \o Escape(text) \o <<"</a>">>

----------------------------------------------------------------------------
(* bottle.request.query: an ordered list of (key, value) pairs *)

\* bottle.request.query.get(key): the value, or None when the key is absent
QueryGet(query, key) ==
    IF \E i \in 1..Len(query) : query[i][1] = key
    THEN query[CHOOSE i \in 1..Len(query) : query[i][1] = key][2]
    ELSE None

\* query[key] = val on a dict: an existing key keeps its place, a new one is last
DictSet(query, key, val) ==
    IF \E i \in 1..Len(query) : query[i][1] = key
    THEN [i \in 1..Len(query) |->
             IF query[i][1] = key THEN <<key, val>> ELSE query[i]]
    ELSE Append(query, <<key, val>>)

RECURSIVE DictUpdate(_, _)
\* for key, val in keyvals.items(): query[key] = val
DictUpdate(query, keyvals) ==
    IF keyvals = <<>> THEN query
    ELSE DictUpdate(DictSet(query, Head(keyvals)[1], Head(keyvals)[2]), Tail(keyvals))

RECURSIVE HrefPairs(_)
\* the loop of get_updated_href: '%s=%s&' for every value that is not None
HrefPairs(query) ==
    IF query = <<>> THEN <<>>
    ELSE (IF Head(query)[2] # None
          THEN <<Head(query)[1], "=">> \o Head(query)[2] \o <<"&">>
          ELSE <<>>) \o HrefPairs(Tail(query))

\* get_updated_href without the overlay loop of lines 155-156
get_updated_href_no_overlay(query, keyvals) ==
    LET href == <<"?">> \o HrefPairs(query)
    IN Take(href, Len(href) - 1)

\* Stats.get_updated_href(keyvals), with the current request's query
get_updated_href(query, keyvals) ==
    LET href == <<"?">> \o HrefPairs(DictUpdate(query, keyvals))
    IN Take(href, Len(href) - 1)

----------------------------------------------------------------------------
(* Stats.process_line and Stats.read *)

\* the info dict of read(): 'func_col_pos' is present (has) or not
NoInfo == [has |-> FALSE, pos |-> 0]

\* re.search(HEADER_LINE_REGEX, line)
IsHeaderLine(line) == \E i \in 1..Len(line) : line[i] \in HEADER_LINE_REGEX

\* lines 113-116: remember where the function signature column starts
HeaderInfo(line, info) ==
    IF ~info.has /\ Find(line, FUNCTION_SIG_HEADER) >= 0
    THEN [has |-> TRUE, pos |-> Find(line, FUNCTION_SIG_HEADER)]
    ELSE info

RECURSIVE ReplaceSortKeys(_, _, _)
\* lines 119-124: for key, val in SORT_ARGS.items(): line = line.replace(key, link)
ReplaceSortKeys(line, args, query) ==
    IF args = <<>> THEN line
    ELSE ReplaceSortKeys(
             Replace(line, Head(args)[1],
                     LinkTemplate(get_updated_href(query, << <<SORT_KEY, <<Head(args)[2]>> >> >>),
                                  <<Head(args)[1]>>)),
             Tail(args), query)

\* the line without its line end ('.' and '$' of the regex stop there)
LineCore(line) ==
    IF line # <<>> /\ line[Len(line)] = "\n" THEN Take(line, Len(line) - 1) ELSE line

\* re.search(STATS_LINE_REGEX, line) with r'(.*)\((.*)\)$': the line ends with ")"
\* and the greedy first group runs to the last "(" before it
StatsMatch(line) ==
    LET core == LineCore(line)
        opens == { i \in 1..(Len(core) - 1) : core[i] = "(" }
    IN IF core # <<>> /\ core[Len(core)] = ")" /\ opens # {}
       THEN LET l == CHOOSE i \in opens : \A j \in opens : j <= i
            IN [ok |-> TRUE, prefix |-> Take(core, l - 1),
                func_name |-> SubSeq(core, l + 1, Len(core) - 1)]
       ELSE [ok |-> FALSE, prefix |-> <<>>, func_name |-> <<>>]

\* lines 128-148: a stat line becomes prefix, location link, "(", name link, ")"
FormatStatLine(line, info, query) ==
    LET m == StatsMatch(line)
    IN IF m.ok /\ m.func_name \notin IGNORE_FUNC_NAMES
       THEN LET func_loc == IF info.has THEN Drop(m.prefix, info.pos) ELSE <<>>
                prefix == IF info.has THEN Take(m.prefix, info.pos) ELSE m.prefix
                full_url_link ==
                    IF info.has
                    THEN LinkTemplate(
                             get_updated_href(query, << <<FUNC_LOC_KEY, func_loc>>,
                                                        <<FUNC_NAME_KEY, m.func_name>> >>),
                             func_loc)
                    ELSE <<>>
                url_link ==
                    LinkTemplate(
                        get_updated_href(query, << <<FUNC_LOC_KEY, None>>,
                                                   <<FUNC_NAME_KEY, m.func_name>> >>),
                        m.func_name)
            IN Escape(prefix) \o full_url_link \o <<"(">> \o url_link \o <<")", "\n">>
       ELSE line

\* Stats.process_line(line, info): the formatted line and the updated info
process_line(line, info, query) ==
    LET header == IsHeaderLine(line)
        info2 == IF header THEN HeaderInfo(line, info) ELSE info
        line2 == IF header THEN ReplaceSortKeys(line, SORT_ARGS, query) ELSE line
    IN [line |-> FormatStatLine(line2, info2, query), info |-> info2]

RECURSIVE ProcessLines(_, _, _)
\* the loop of read() over the lines, info carried from line to line
ProcessLines(lines, info, query) ==
    IF lines = <<>> THEN <<>>
    ELSE LET r == process_line(Head(lines), info, query)
         IN <<r.line>> \o ProcessLines(Tail(lines), r.info, query)

\* Stats.read() applied to the stream's value
read(output, query) == Concat(ProcessLines(SplitLines(output), NoInfo, query))

----------------------------------------------------------------------------
(* What a browser makes of the formatted text, and of a followed link *)

\* the character an HTML entity stands for
UnescapeAtom(a) ==
    CASE a = "&amp;" -> "&"
      [] a = "&lt;" -> "<"
      [] a = "&gt;" -> ">"
      [] a = "&#039;" -> "'"
      [] a = "&lt;a href=&#039;" -> "<a href='"
      [] a = "&#039;&gt;" -> "'>"
      [] a = "&lt;/a&gt;" -> "</a>"
      [] OTHER -> a

Unescape(s) == [i \in 1..Len(s) |-> UnescapeAtom(s[i])]

RECURSIVE ParseLinks(_)
\* the hyperlinks of a text in order, each with its target and its visible text
ParseLinks(s) ==
    LET a == Find(s, <<"<a href='">>)
        afterOpen == Drop(s, a + 1)
        j == Find(afterOpen, <<"'>">>)
        rest == Drop(afterOpen, j + 1)
        k == Find(rest, <<"</a>">>)
    IN IF a < 0 \/ j < 0 \/ k < 0 THEN <<>>
       ELSE <<[target |-> Unescape(Take(afterOpen, j)),
               text |-> Unescape(Take(rest, k))]>>
            \o ParseLinks(Drop(rest, k + 1))

\* the text a reader sees: markup removed, entities decoded
Visible(s) ==
    LET hidden(i) ==
            \/ s[i] \in {"<a href='", "'>", "</a>"}
            \/ \E a \in 1..(i - 1) :
                   s[a] = "<a href='" /\ \A b \in (a + 1)..i : s[b] # "'>"
    IN Unescape(AtIndices(s, { i \in 1..Len(s) : ~hidden(i) }))

\* one 'key=value' piece of a query string: split at the first "=", a piece
\* without "=" has the empty value
ParsePair(piece) ==
    LET k == Find(piece, <<"=">>)
        key == IF k < 0 THEN piece ELSE Take(piece, k)
        val == IF k < 0 THEN <<>> ELSE Drop(piece, k + 1)
    IN <<IF Len(key) = 1 THEN key[1] ELSE "<other>", val>>

RECURSIVE ParsePieces(_)
\* the (key, value) pairs of the pieces, empty pieces skipped
ParsePieces(pieces) ==
    IF pieces = <<>> THEN <<>>
    ELSE (IF Head(pieces) = <<>> THEN <<>> ELSE <<ParsePair(Head(pieces))>>)
         \o ParsePieces(Tail(pieces))

\* bottle.request.query of the request that follows a link with this target:
\* the text after "?" split on "&", empty pieces skipped, the last value of a
\* repeated key kept
ParseQuery(target) ==
    LET qs == IF target # <<>> /\ Head(target) = "?" THEN Tail(target) ELSE target
    IN DictUpdate(<<>>, ParsePieces(Pieces(qs, "&", FALSE)))

----------------------------------------------------------------------------
(* What route_handler derives from the request (lines 194-202) *)

\* bottle.request.query.get(key) or ''
QueryOrEmpty(query, key) ==
    IF QueryGet(query, key) = None THEN <<>> ELSE QueryGet(query, key)

\* re.escape on one atom
ReEscapeAtom(a) ==
    CASE a = "(" -> "\\("
      [] a = ")" -> "\\)"
      [] a = "<" -> "\\<"
      [] a = ">" -> "\\>"
      [] a = "mod.py" -> "mod\\.py"
      [] OTHER -> a

ReEscape(s) == [i \in 1..Len(s) |-> ReEscapeAtom(s[i])]

\* lines 198-202: the restrictions list
Restrictions(query) ==
    LET func_name == QueryOrEmpty(query, FUNC_NAME_KEY)
        func_loc == QueryOrEmpty(query, FUNC_LOC_KEY)
    IN (IF func_name # <<>> THEN << <<"\\(">> \o ReEscape(func_name) \o <<"\\)">> >> ELSE <<>>)
       \o (IF func_loc # <<>> THEN << <<"^">> \o ReEscape(func_loc) >> ELSE <<>>)

\* the keys pstats.Stats.sort_stats accepts (its sort_arg_dict_default)
SortArgDict ==
    {"calls", "ncalls", "cumtime", "cumulative", "filename", "line", "module",
     "name", "nfl", "pcalls", "stdname", "time", "tottime"}

\* Stats.sort(sort): sort = sort or DEFAULT_SORT_ARG; self.stats.sort_stats(sort).
\* sort_stats raises KeyError for a key it does not know: ok is FALSE then.
StatsSort(sort) ==
    LET arg == IF sort = <<>> THEN DEFAULT_SORT_ARG ELSE sort
    IN [ok |-> Len(arg) = 1 /\ arg[1] \in SortArgDict, key |-> arg]

----------------------------------------------------------------------------
(* The text pstats prints, and the requests a reader can make *)

StatsHeader ==
    <<" ", "ncalls", " ", "tottime", " ", "cumtime", " ",
      "filename", ":", "lineno", "(", "function", ")", "\n">>

\* print_stats: title, header, one line per function
StatsReport ==
    <<" ", "Ordered by: cumulative time", "\n">> \o StatsHeader
    \o <<" ", "5", " ", "0.1", " ", "0.2", " ", "mod.py", ":", "10", "(", "foo", ")", "\n">>
    \o <<" ", "1", " ", "0.0", " ", "0.3", " ", "mod.py", ":", "1", "(", "<", "module", ">", ")", "\n">>
    \o <<" ", "1", " ", "0.0", " ", "0.0", " ", "{built-in method exec}", "\n">>

\* print_stats of a run whose source file is named after a column (cumtime.py)
TokenReport ==
    StatsHeader
    \o <<" ", "2", " ", "0.1", " ", "0.1", " ", "cumtime", ".py", ":", "3", "(", "bar", ")", "\n">>

\* print_callers: its header has the column names but no function signature column
CallersReport ==
    <<"Function", " ", "was called by...", "\n">>
    \o <<" ", " ", "ncalls", " ", "tottime", " ", "cumtime", "\n">>
    \o <<"mod.py", ":", "10", "(", "foo", ")", " ", "<-", " ", "5", " ", "0.1", " ", "0.2", " ",
         "mod.py", ":", "1", "(", "<", "module", ">", ")", "\n">>

\* print_callees
CalleesReport ==
    <<"Function", " ", "called...", "\n">>
    \o <<" ", " ", "ncalls", " ", "tottime", " ", "cumtime", "\n">>
    \o <<"mod.py", ":", "1", "(", "<", "module", ">", ")", " ", "->", " ", "5", " ", "0.1", " ", "0.2", " ",
         "mod.py", ":", "10", "(", "foo", ")", "\n">>

\* print_stats when the restrictions match nothing: no header, no lines
EmptyReport == <<" ", "Ordered by: cumulative time", "\n">>

RawTexts == {StatsReport, TokenReport, CallersReport, CalleesReport, EmptyReport}

\* a query string's parameter: absent (None), or present with a value
QueryOf(func_loc, func_name, sort) ==
    (IF func_loc = None THEN <<>> ELSE << <<FUNC_LOC_KEY, func_loc>> >>)
    \o (IF func_name = None THEN <<>> ELSE << <<FUNC_NAME_KEY, func_name>> >>)
    \o (IF sort = None THEN <<>> ELSE << <<SORT_KEY, sort>> >>)

FuncLocValues == {None, <<>>, <<"mod.py", ":", "10">>}
FuncNameValues == {None, <<>>, <<"foo">>, <<"lineno">>}
SortValues == {None, <<>>, <<"calls">>, <<"bogus">>}

FmtQueries ==
    { QueryOf(l, n, s) : l \in FuncLocValues, n \in FuncNameValues, s \in SortValues }

----------------------------------------------------------------------------
(* Formatting one report and following its links *)

FmtIdle ==
    /\ fmtPc = "off" /\ fmtQuery = <<>> /\ fmtRaw = <<>> /\ fmtOut = <<>>
    /\ fmtPrev = <<>> /\ fmtClicked = <<>> /\ fmtClicks = 0

FmtInit ==
    /\ fmtPc = "input"
    /\ fmtQuery \in FmtQueries
    /\ fmtRaw \in RawTexts
    /\ fmtOut = <<>>
    /\ fmtPrev = <<>>
    /\ fmtClicked = <<>>
    /\ fmtClicks = 0

\* Stats.read(): the stream's text, every line through process_line
FmtRead ==
    /\ fmtPc \in {"input", "clicked"}
    /\ fmtOut' = read(fmtRaw, fmtQuery)
    /\ fmtPc' = "read"
    /\ UNCHANGED <<fmtQuery, fmtRaw, fmtPrev, fmtClicked, fmtClicks>>
    /\ UNCHANGED serverVars

\* the reader follows link i of the report: a new request whose query is the
\* link's target, for the same kind of report
FmtFollow(i) ==
    /\ fmtPc = "read"
    /\ fmtClicks < MaxClicks
    /\ i \in 1..Len(ParseLinks(fmtOut))
    /\ fmtPrev' = fmtQuery
    /\ fmtQuery' = ParseQuery(ParseLinks(fmtOut)[i].target)
    /\ fmtClicked' = ParseLinks(fmtOut)[i].text
    /\ fmtClicks' = fmtClicks + 1
    /\ fmtPc' = "clicked"
    /\ fmtOut' = <<>>
    /\ UNCHANGED fmtRaw
    /\ UNCHANGED serverVars

FmtNext ==
    \/ FmtRead
    \/ \E i \in 1..Len(ParseLinks(fmtOut)) : FmtFollow(i)

----------------------------------------------------------------------------
(* Script mode: main(), the profiled workload, the requests *)

Requests == 1..NReq

\* Stats objects that can be alive at once: the one self.stats refers to and
\* one held by each running handler
Sessions == 1..(NReq + 1)

FuncNameInputs == {None, <<>>, <<"foo">>}
FuncLocInputs == {None, <<"mod.py", ":", "10">>}
SortInputs == {None, <<"calls">>, <<"bogus">>}

\* the queries the transport hands to route_handler
ServerQueries ==
    { QueryOf(l, n, s) : l \in FuncLocInputs, n \in FuncNameInputs, s \in SortInputs }

\* the queries of the requests run concurrently
ConcurrentQueries ==
    { QueryOf(None, n, s) : n \in {None, <<"foo">>}, s \in {None, <<"bogus">>} }

NoSession == [made |-> FALSE, snap |-> 0, sortKey |-> <<>>, stream |-> <<>>]
NoBlocks == [callers |-> <<>>, callees |-> <<>>, stats |-> <<>>]

Stopped == workload \in {"finished", "raised"}

ServerInit ==
    /\ mainPc = "spawn"
    /\ server = "down"
    /\ workload = "unstarted"
    /\ profData = 0
    /\ selfStats = 0
    /\ sessions = [s \in Sessions |-> NoSession]
    /\ pc = [r \in Requests |-> "idle"]
    /\ reqQuery = [r \in Requests |-> <<>>]
    /\ cur = [r \in Requests |-> 0]
    /\ mine = [r \in Requests |-> 0]
    /\ blocks = [r \in Requests |-> NoBlocks]
    /\ calls = [r \in Requests |-> <<>>]
    /\ afterStop = [r \in Requests |-> FALSE]

reqVars == <<selfStats, sessions, pc, reqQuery, cur, mine, blocks, calls, afterStop>>
mainVars == <<mainPc, server>>

\* lines 275-277: the daemon thread starts profile.runctx; the running exec
\* call is the first record of the profile
MainSpawn ==
    /\ mainPc = "spawn"
    /\ mainPc' = "serve"
    /\ workload' = "running"
    /\ profData' = 1
    /\ UNCHANGED <<server, reqVars, fmtVars>>

\* lines 279-280: CProfileV(profile, ...).start(), without joining the thread
MainServe ==
    /\ mainPc = "serve"
    /\ mainPc' = "serving"
    /\ server' = "serving"
    /\ UNCHANGED <<workload, profData, reqVars, fmtVars>>

\* the workload calls and returns: the profile accumulates
WorkloadStep ==
    /\ workload = "running"
    /\ profData < MaxData
    /\ profData' = profData + 1
    /\ UNCHANGED <<workload, mainVars, reqVars, fmtVars>>

\* the workload returns: runctx returns and the daemon thread ends
WorkloadFinish ==
    /\ workload = "running"
    /\ workload' = "finished"
    /\ UNCHANGED <<profData, mainVars, reqVars, fmtVars>>

\* the workload raises and the exception takes the serving path down
WorkloadRaisePropagates ==
    /\ workload = "running"
    /\ workload' = "raised"
    /\ server' = "down"
    /\ UNCHANGED <<mainPc, profData, reqVars, fmtVars>>

\* the workload raises: the exception ends the daemon thread only
WorkloadRaise ==
    /\ workload = "running"
    /\ workload' = "raised"
    /\ UNCHANGED <<profData, mainVars, reqVars, fmtVars>>

----------------------------------------------------------------------------
(* Stats objects *)

\* Stats.__init__: pstats.Stats(self.profile, stream=StringIO()) loads the
\* profile's records once, here; the stream starts empty, nothing is sorted
NewStats(data) == [made |-> TRUE, snap |-> data, sortKey |-> <<>>, stream |-> <<>>]

\* a print call that reloads the live profile
PrintedLive(session, live) == live

\* the records print_stats / print_callers / print_callees print: the ones
\* the pstats.Stats object loaded, whatever the profile holds by now (live)
PrintedData(session, live) == session.snap

\* read_stream without seek(0) and truncate()
read_stream_keep(stream) == [value |-> stream, rest |-> stream]

\* Stats.read_stream: the stream's value, and the stream after seek(0), truncate()
read_stream(stream) == [value |-> stream, rest |-> <<>>]

\* the sub-reports asked for "if func_loc"
WantsCallersByLoc(query) == QueryOrEmpty(query, FUNC_LOC_KEY) # <<>>

\* lines 205-206: the sub-reports are asked for "if func_name"
WantsCallers(query) == QueryOrEmpty(query, FUNC_NAME_KEY) # <<>>

\* a Stats object nothing refers to any more is dropped
Collect(sess, ss, held) ==
    [s \in Sessions |->
        IF s = ss \/ (\E r \in Requests : held[r] = s) THEN sess[s] ELSE NoSession]

\* the text one print call writes, kept with the call that wrote it
Chunk(r, kind, s) ==
    [req |-> r, kind |-> kind, restr |-> Restrictions(reqQuery[r]),
     data |-> PrintedData(sessions[s], profData), live |-> profData,
     sortKey |-> sessions[s].sortKey]

----------------------------------------------------------------------------
(* CProfileV.route_handler, one step per call it makes *)

Idle(r) == pc[r] = "idle"

\* the transport calls route_handler for a request with query q
Accept(r, q) ==
    /\ server = "serving"
    /\ Idle(r)
    /\ \A r2 \in Requests : r2 < r => ~Idle(r2)
    /\ pc' = [pc EXCEPT ![r] = "l192"]
    /\ reqQuery' = [reqQuery EXCEPT ![r] = q]
    /\ afterStop' = [afterStop EXCEPT ![r] = Stopped]
    /\ UNCHANGED <<selfStats, sessions, cur, mine, blocks, calls>>
    /\ UNCHANGED <<mainVars, workload, profData, fmtVars>>

\* the default server of bottle's run() handles one request at a time
AcceptSerial(r, q) ==
    /\ \A r2 \in Requests : Idle(r2)
    /\ Accept(r, q)

\* line 192, right-hand side: Stats(self.profile)
Construct(r) ==
    /\ pc[r] = "l192"
    /\ LET free == { s \in Sessions : ~sessions[s].made }
           s == CHOOSE x \in free : \A y \in free : x <= y
       IN /\ sessions' = [sessions EXCEPT ![s] = NewStats(profData)]
          /\ cur' = [cur EXCEPT ![r] = s]
          /\ mine' = [mine EXCEPT ![r] = s]
    /\ pc' = [pc EXCEPT ![r] = "l192store"]
    /\ UNCHANGED <<selfStats, reqQuery, blocks, calls, afterStop>>
    /\ UNCHANGED <<mainVars, workload, profData, fmtVars>>

\* line 192, the assignment: self.stats = <the new object>
Store(r) ==
    /\ pc[r] = "l192store"
    /\ selfStats' = cur[r]
    /\ cur' = [cur EXCEPT ![r] = 0]
    /\ sessions' = Collect(sessions, selfStats', cur')
    /\ pc' = [pc EXCEPT ![r] = "l204"]
    /\ UNCHANGED <<reqQuery, mine, blocks, calls, afterStop>>
    /\ UNCHANGED <<mainVars, workload, profData, fmtVars>>

\* self.stats.sort(sort) at label from: on success to label to, holding the
\* object when hold; a KeyError of sort_stats ends the handler
SortStep(r, from, to, hold) ==
    /\ pc[r] = from
    /\ LET s == selfStats
           res == StatsSort(QueryOrEmpty(reqQuery[r], SORT_KEY))
       IN IF res.ok
          THEN /\ sessions' = [sessions EXCEPT ![s].sortKey = res.key]
               /\ pc' = [pc EXCEPT ![r] = to]
               /\ cur' = [cur EXCEPT ![r] = IF hold THEN s ELSE 0]
          ELSE /\ pc' = [pc EXCEPT ![r] = "error"]
               /\ UNCHANGED <<sessions, cur>>
    /\ UNCHANGED <<selfStats, reqQuery, mine, blocks, calls, afterStop>>
    /\ UNCHANGED <<mainVars, workload, profData, fmtVars>>

\* line 204: self.stats.sort(sort)
Sort1(r) ==
    SortStep(r, "l204", IF WantsCallers(reqQuery[r]) THEN "l205show" ELSE "l209sort", FALSE)

\* a print call on object s: show_callers / show_callees / show
ShowStep(r, from, kind, s, to) ==
    /\ pc[r] = from
    /\ sessions' = [sessions EXCEPT ![s].stream = Append(@, Chunk(r, kind, s))]
    /\ calls' = [calls EXCEPT ![r] =
                    Append(@, [op |-> kind, restr |-> Restrictions(reqQuery[r]), on |-> s])]
    /\ cur' = [cur EXCEPT ![r] = s]
    /\ pc' = [pc EXCEPT ![r] = to]
    /\ UNCHANGED <<selfStats, reqQuery, mine, blocks, afterStop>>
    /\ UNCHANGED <<mainVars, workload, profData, fmtVars>>

\* .read() on the object the print call returned
ReadStep(r, from, kind, to) ==
    /\ pc[r] = from
    /\ LET s == cur[r]
           rs == read_stream(sessions[s].stream)
       IN /\ blocks' = [blocks EXCEPT ![r][kind] = rs.value]
          /\ cur' = [cur EXCEPT ![r] = 0]
          /\ sessions' = Collect([sessions EXCEPT ![s].stream = rs.rest], selfStats, cur')
    /\ pc' = [pc EXCEPT ![r] = to]
    /\ UNCHANGED <<selfStats, reqQuery, mine, calls, afterStop>>
    /\ UNCHANGED <<mainVars, workload, profData, fmtVars>>

\* line 205: self.stats.show_callers(*restrictions) ... .read()
CallersShow(r) == ShowStep(r, "l205show", "callers", selfStats, "l205read")
CallersRead(r) == ReadStep(r, "l205read", "callers", "l206show")

\* line 206: self.stats.show_callees(*restrictions) ... .read()
CalleesShow(r) == ShowStep(r, "l206show", "callees", selfStats, "l206read")
CalleesRead(r) == ReadStep(r, "l206read", "callees", "l209sort")

\* line 209: self.stats.sort(sort) ... .show(*restrictions) ... .read()
Sort2(r) == SortStep(r, "l209sort", "l209show", TRUE)
Show(r) == ShowStep(r, "l209show", "stats", cur[r], "l209read")
Read(r) == ReadStep(r, "l209read", "stats", "done")

\* line 214, or the exception leaving the handler: the transport answers and
\* the activation is over
Respond(r) ==
    /\ pc[r] \in {"done", "error"}
    /\ pc' = [pc EXCEPT ![r] = "idle"]
    /\ reqQuery' = [reqQuery EXCEPT ![r] = <<>>]
    /\ mine' = [mine EXCEPT ![r] = 0]
    /\ blocks' = [blocks EXCEPT ![r] = NoBlocks]
    /\ calls' = [calls EXCEPT ![r] = <<>>]
    /\ afterStop' = [afterStop EXCEPT ![r] = FALSE]
    /\ UNCHANGED <<selfStats, sessions, cur>>
    /\ UNCHANGED <<mainVars, workload, profData, fmtVars>>

----------------------------------------------------------------------------
(* Specifications *)

Init == ServerInit /\ FmtIdle

\* script mode as main() starts it: one request at a time, any number of them
Next ==
    \/ MainSpawn \/ MainServe
    \/ WorkloadStep \/ WorkloadFinish \/ WorkloadRaise
    \/ \E r \in Requests, q \in ServerQueries : AcceptSerial(r, q)
    \/ \E r \in Requests : Construct(r)
    \/ \E r \in Requests : Store(r)
    \/ \E r \in Requests : Sort1(r)
    \/ \E r \in Requests : CallersShow(r)
    \/ \E r \in Requests : CallersRead(r)
    \/ \E r \in Requests : CalleesShow(r)
    \/ \E r \in Requests : CalleesRead(r)
    \/ \E r \in Requests : Sort2(r)
    \/ \E r \in Requests : Show(r)
    \/ \E r \in Requests : Read(r)
    \/ \E r \in Requests : Respond(r)

Spec == Init /\ [][Next]_vars

\* file mode (lines 246-252): the profile is a finished cProfile output file,
\* main() is in start() and nothing runs in the background
InitConcurrent ==
    /\ mainPc = "serving"
    /\ server = "serving"
    /\ workload = "unstarted"
    /\ profData = 1
    /\ selfStats = 0
    /\ sessions = [s \in Sessions |-> NoSession]
    /\ pc = [r \in Requests |-> "idle"]
    /\ reqQuery = [r \in Requests |-> <<>>]
    /\ cur = [r \in Requests |-> 0]
    /\ mine = [r \in Requests |-> 0]
    /\ blocks = [r \in Requests |-> NoBlocks]
    /\ calls = [r \in Requests |-> <<>>]
    /\ afterStop = [r \in Requests |-> FALSE]
    /\ FmtIdle

\* the same instance behind a transport that runs handlers concurrently,
\* for NReq requests
NextConcurrent ==
    \/ \E r \in Requests, q \in ConcurrentQueries : Accept(r, q)
    \/ \E r \in Requests : Construct(r)
    \/ \E r \in Requests : Store(r)
    \/ \E r \in Requests : Sort1(r)
    \/ \E r \in Requests : CallersShow(r)
    \/ \E r \in Requests : CallersRead(r)
    \/ \E r \in Requests : CalleesShow(r)
    \/ \E r \in Requests : CalleesRead(r)
    \/ \E r \in Requests : Sort2(r)
    \/ \E r \in Requests : Show(r)
    \/ \E r \in Requests : Read(r)

SpecConcurrent == InitConcurrent /\ [][NextConcurrent]_vars

\* one report formatted and its links followed
InitFmt == ServerInit /\ FmtInit

SpecFmt == InitFmt /\ [][FmtNext]_vars

----------------------------------------------------------------------------
(* Properties of route_handler, checked under Spec and SpecConcurrent *)

BlockKinds == {"callers", "callees", "stats"}

\* the chunks of a text
ChunksOf(seq) == { seq[i] : i \in 1..Len(seq) }

ReadChunks(r) == UNION { ChunksOf(blocks[r][k]) : k \in BlockKinds }

Ops(r) == { calls[r][i].op : i \in 1..Len(calls[r]) }

\* the sort token of request r is non-empty and no key of sort_stats
UnknownSort(r) ==
    LET sort == QueryOrEmpty(reqQuery[r], SORT_KEY)
    IN sort # <<>> /\ ~(Len(sort) = 1 /\ sort[1] \in SortArgDict)

\* C1: a request whose sort parameter is a non-empty token that the
\* aggregation library does not recognise is handled without an error and
\* its report is sorted by the default key, cumulative time.
C1_UnknownSortFallsBack ==
    \A r \in Requests :
        (pc[r] # "idle" /\ UnknownSort(r)) =>
            /\ pc[r] # "error"
            /\ pc[r] = "done" =>
                   /\ blocks[r].stats # <<>>
                   /\ \A c \in ChunksOf(blocks[r].stats) : c.sortKey = <<"cumulative">>

\* C2: under any interleaving of concurrent requests on one CProfileV, every
\* print call of a request is made on the Stats object that request
\* constructed, and every block it reads holds text printed for it only.
C2_RequestLocalSession ==
    \A r \in Requests :
        /\ \A i \in 1..Len(calls[r]) : calls[r][i].on = mine[r]
        /\ \A c \in ReadChunks(r) : c.req = r

\* C3: once the workload has finished or raised, the serving path is still
\* serving and never waited for it; a request issued after that point is
\* handled as any other (it fails only for a sort token sort_stats rejects,
\* whatever the workload did) and its report shows the data accumulated up
\* to the stop.
C3_WorkloadEndConfined ==
    /\ mainPc = "serve" => ENABLED MainServe
    /\ mainPc = "serving" => server = "serving"
    /\ Stopped =>
        \A r \in Requests :
            afterStop[r] =>
                /\ pc[r] = "error" => UnknownSort(r)
                /\ pc[r] = "done" =>
                       /\ blocks[r].stats # <<>>
                       /\ \A c \in ReadChunks(r) : c.data = profData

\* C3 witness: a request issued after the workload raised has its report,
\* and the workload had accumulated data before it raised
C3_Witness ==
    \E r \in Requests :
        /\ workload = "raised" /\ profData > 1
        /\ afterStop[r] /\ pc[r] = "done" /\ blocks[r].stats # <<>>

\* C7 as stated: every render call prints the data the live profile holds at
\* the time of the call.
C7_RendersReadLive ==
    /\ \A s \in Sessions : \A c \in ChunksOf(sessions[s].stream) : c.data = c.live
    /\ \A r \in Requests : \A c \in ReadChunks(r) : c.data = c.live

\* C7 amended: every render call of a session prints the data loaded when
\* the session was constructed, also when the workload has advanced since.
C7_RendersPrintSnapshot ==
    /\ \A s \in Sessions :
           /\ sessions[s].snap <= profData
           /\ \A c \in ChunksOf(sessions[s].stream) : c.data = sessions[s].snap
    /\ \A r \in Requests :
           mine[r] # 0 => \A c \in ReadChunks(r) : c.data = sessions[mine[r]].snap

\* C7 witness: the workload advanced between the callers render and the main
\* render of one request, and both show the same data
C7_Witness ==
    \E r \in Requests :
        /\ pc[r] = "done" /\ blocks[r].callers # <<>> /\ blocks[r].stats # <<>>
        /\ blocks[r].callers[1].live < blocks[r].stats[1].live
        /\ blocks[r].callers[1].data = blocks[r].stats[1].data

\* the restrictions a request with this name and location selects
ExpectedRestrictionCount(r) ==
    (IF QueryOrEmpty(reqQuery[r], FUNC_NAME_KEY) # <<>> THEN 1 ELSE 0)
    + (IF QueryOrEmpty(reqQuery[r], FUNC_LOC_KEY) # <<>> THEN 1 ELSE 0)

\* C8: show_callers / show_callees are called only for a non-empty
\* func_name; without one (also when only func_loc is given) both blocks
\* are empty and neither is called; every print call gets all the derived
\* restrictions; a handler that returns has asked for the main report, and
\* for both sub-reports exactly when func_name is non-empty.
C8_CallersIffFuncName ==
    \A r \in Requests :
        LET named == QueryOrEmpty(reqQuery[r], FUNC_NAME_KEY) # <<>>
        IN /\ ~named => /\ "callers" \notin Ops(r) /\ "callees" \notin Ops(r)
                        /\ blocks[r].callers = <<>> /\ blocks[r].callees = <<>>
           /\ \A i \in 1..Len(calls[r]) :
                  Len(calls[r][i].restr) = ExpectedRestrictionCount(r)
           /\ pc[r] = "done" =>
                  /\ "stats" \in Ops(r)
                  /\ named <=> ("callers" \in Ops(r) /\ "callees" \in Ops(r))

\* C8 witnesses: one handler returned with only func_loc given, no sub-report
\* asked for and the main report restricted by the location
C8_Witness ==
    \E r \in Requests :
        /\ pc[r] = "done"
        /\ QueryGet(reqQuery[r], FUNC_NAME_KEY) = None
        /\ QueryGet(reqQuery[r], FUNC_LOC_KEY) # None
        /\ Ops(r) = {"stats"}
        /\ Len(calls[r][1].restr) = 1

\* C10: handled alone, a request finds the stream empty after each read(),
\* and each block is exactly the text of its own print call.
C10_ReadEmptiesBuffer ==
    \A r \in Requests :
        LET named == QueryOrEmpty(reqQuery[r], FUNC_NAME_KEY) # <<>>
            Only(kind) == \E c \in ChunksOf(blocks[r][kind]) :
                              /\ blocks[r][kind] = <<c>>
                              /\ c.kind = kind /\ c.req = r
        IN /\ (pc[r] \in {"l206show", "l209sort", "done"} /\ mine[r] # 0) =>
                  sessions[mine[r]].stream = <<>>
           /\ (pc[r] \in {"l206show", "l206read"}) => Only("callers")
           /\ pc[r] = "done" =>
                  /\ Only("stats")
                  /\ IF named THEN Only("callers") /\ Only("callees")
                     ELSE blocks[r].callers = <<>> /\ blocks[r].callees = <<>>

\* C10 witness: a handler returned with all three blocks read
C10_Witness ==
    \E r \in Requests :
        /\ pc[r] = "done"
        /\ Len(blocks[r].callers) = 1 /\ Len(blocks[r].callees) = 1
        /\ Len(blocks[r].stats) = 1 /\ blocks[r].stats[1].kind = "stats"

----------------------------------------------------------------------------
(* Properties of the formatted report, checked under SpecFmt *)

RawLines == SplitLines(fmtRaw)
OutLines == SplitLines(fmtOut)

\* no 'key=' without a value in a link target
NoEmptyValue(target) ==
    \A i \in 1..Len(target) :
        target[i] = "=" => (i < Len(target) /\ target[i + 1] # "&")

\* C4: a link target holds key=value only for parameters whose value is
\* non-empty; an empty or absent value is never serialized as 'key='.
C4_NoEmptyValueInLinks ==
    fmtPc = "read" =>
        \A i \in 1..Len(ParseLinks(fmtOut)) : NoEmptyValue(ParseLinks(fmtOut)[i].target)

\* a line of the raw report that names a function: it matches the stat-line
\* pattern and the name is neither empty nor the sentinel 'function'
IsFunctionLine(line) ==
    StatsMatch(line).ok /\ StatsMatch(line).func_name \notin { <<>>, <<"function">> }

\* C5: every function line of any report (main, callers, callees) comes out
\* of read() with exactly two hyperlinks and with its visible text unchanged,
\* also when no header of the report has the function signature column.
C5_TwoLinksExactText ==
    fmtPc = "read" =>
        \A i \in 1..Len(RawLines) :
            IsFunctionLine(RawLines[i]) =>
                /\ Len(ParseLinks(OutLines[i])) = 2
                /\ Visible(OutLines[i]) = RawLines[i]

\* the sort key the column stands for
SortKeyOfColumn(token) ==
    CASE token = "ncalls" -> "calls"
      [] token = "tottime" -> "time"
      [] token = "cumtime" -> "cumulative"
      [] token = "filename" -> "module"
      [] token = "lineno" -> "nfl"

SortColumns == {"ncalls", "tottime", "cumtime", "filename", "lineno"}

IsColumn(a) == a \in SortColumns

\* a header line: it has a column name and names no function
IsColumnHeader(line) ==
    (\E i \in 1..Len(line) : line[i] \in {"ncalls", "tottime", "cumtime"})
    /\ ~IsFunctionLine(line)

\* C6: in a header line every column token becomes exactly one link whose
\* visible text is the token and whose target is the current query with sort
\* set to the column's key, whatever the current query holds; inserted
\* markup is not rewritten.
C6_HeaderLinksExact ==
    fmtPc = "read" =>
        \A i \in 1..Len(RawLines) :
            IsColumnHeader(RawLines[i]) =>
                LET tokens == SelectSeq(RawLines[i], IsColumn)
                    links == ParseLinks(OutLines[i])
                IN /\ Len(links) = Len(tokens)
                   /\ Visible(OutLines[i]) = RawLines[i]
                   /\ \A j \in 1..Len(links) :
                          /\ links[j].text = <<tokens[j]>>
                          /\ ParseQuery(links[j].target)
                                 = DictSet(fmtQuery, "sort", <<SortKeyOfColumn(tokens[j])>>)

\* C9: from a request without parameters, the main report has a link for
\* each of the five columns, and the request made by following one is
\* accepted by sort, sorted by that column's key, and unrestricted like the
\* first.
C9_SortLinkRoundTrip ==
    /\ (fmtPc = "read" /\ fmtQuery = <<>> /\ fmtRaw = StatsReport) =>
           { <<t>> : t \in SortColumns }
               \subseteq { ParseLinks(fmtOut)[i].text : i \in 1..Len(ParseLinks(fmtOut)) }
    /\ (fmtPc = "clicked" /\ fmtPrev = <<>>
            /\ Len(fmtClicked) = 1 /\ fmtClicked[1] \in SortColumns) =>
           LET res == StatsSort(QueryOrEmpty(fmtQuery, "sort"))
           IN /\ res.ok
              /\ res.key = <<SortKeyOfColumn(fmtClicked[1])>>
              /\ Restrictions(fmtQuery) = <<>>
              /\ Restrictions(fmtQuery) = Restrictions(fmtPrev)

\* C9 witness: the lineno column's link of a parameterless request's report
\* was followed
C9_Witness ==
    /\ fmtPc = "clicked" /\ fmtPrev = <<>> /\ fmtClicked = <<"lineno">>
    /\ QueryGet(fmtQuery, "sort") = <<"nfl">>

====
